---------------------------- MODULE Spec2Model ----------------------------
(***************************************************************************)
(* Model of the subliminal-learning experiment engine:                     *)
(*   - the response sanitizer enforce_numeric_only                         *)
(*     (scripts/generate_teacher_conversations.py),                        *)
(*   - the teacher conversation synthesizer generate_conversation_batch    *)
(*     and its driver main (same file),                                    *)
(*   - the ablation sweep run_condition / summarize / main                 *)
(*     (scripts/ablation_driver.py),                                       *)
(*   - owl detection and the summary of the single-turn evaluator,         *)
(*     detect_owl / summarize (evaluate_owl_transfer.py),                  *)
(*   - the student-chat reconstruction build_student_chats                 *)
(*     (scripts/test_role_assume.py).                                      *)
(* Strings are sequences of one-character strings, so that scanning,       *)
(* truncation and trimming are computed character by character.           *)
(***************************************************************************)
EXTENDS Integers, Sequences, FiniteSets, TLC

VARIABLES
    \* --- sanitizer harness -------------------------------------------
    raw,            \* the argument of enforce_numeric_only
    cleaned,        \* enforce_numeric_only(raw)
    recleaned,      \* enforce_numeric_only(cleaned)
    sanPc,          \* "start" | "once" | "twice" | "idle"
    \* --- generate_teacher_conversations.py: main's arguments ----------
    count,          \* args.count
    batch_size_arg, \* args.batch_size
    n_turns,        \* args.turns
    seed,           \* args.seed
    system_prompt,  \* ANIMAL_PREFERENCE_SYSTEM_PROMPT.get(args.animal, "")
    \* --- main's locals -----------------------------------------------
    rows,           \* list of {id, chat, model, failed_turns}
    failures,       \* running sum of the failure flags
    idx,            \* next record id, also the offset of the next batch
    batches_done,   \* iterations of "for _ in range(n_batches)" completed
    saved,          \* what save_jsonl wrote: <<>> (nothing yet) or <<rows>>
    \* --- generate_conversation_batch's arguments and locals ----------
    pgs,            \* the batch's PromptGenerators (their generator states)
    rngs,           \* the batch's numpy Generators (their generator states)
    conversations,  \* one chat per batch item
    failed_turns,   \* one list of per-turn flags per batch item
    turn,           \* the loop variable of "for turn in range(n_turns)"
    chats,          \* returned conversations
    all_failed_flags, \* returned flags
    teacherPc,      \* where main / generate_conversation_batch stands
    \* --- the environment of the synthesizer --------------------------
    parse_none,     \* the sanitized strings for which parse_response is None
    backend_memo,   \* the generation backend's answers so far: {<<input, output>>}
    gen_calls,      \* per batch: the sizes of the chat_completion calls made
    launch,         \* 1: first launch of the program, 2: it is launched again
    first_saved,    \* what the first launch wrote
    \* --- ablation_driver.py: main's arguments ------------------------
    args_turns,     \* args.turns, in the order given
    args_both,      \* args.both
    args_unrestricted, \* args.unrestricted
    \* --- main's locals -----------------------------------------------
    conditions,     \* list of (turns, mode)
    modes_to_run,   \* list of unrestricted flags
    mode_i,         \* position of "for unrestricted in modes_to_run"
    cond_i,         \* position of "for turns, role_mode in conditions"
    summary_rows,   \* list of row dicts
    csv,            \* summary.csv: <<>> (not written) or <<rows written>>
    sweepPc,        \* where main / run_condition stands
    \* --- the environment of the sweep --------------------------------
    student_answers, \* what the student answers in this run
    invocations,    \* the Responder commands started so far
    exits,          \* the exit statuses of those that have ended
    files,          \* the output directory: list of {path, content, written_by}
    \* --- the two summarize functions, applied to one record list -----
    loaded_rows,    \* the student records read from a JSONL file
    eval_stats,     \* evaluate_owl_transfer.summarize: <<>> or <<stats>>
    driver_row,     \* ablation_driver's report row: <<>> or <<row>>
    summPc,         \* "ready" | "idle"
    \* --- detect_owl harness -------------------------------------------
    student_answer, \* the argument of detect_owl
    owl_detected,   \* detect_owl(student_answer)
    detectPc,       \* "start" | "done" | "idle"
    \* --- build_student_chats (test_role_assume.py) --------------------
    teacher_chats,  \* the teacher records handed to build_student_chats
    student_turns,  \* its argument turns
    role_assume,    \* its argument role_assume
    student_chats,  \* what it returns
    studentPc       \* "start" | "built" | "idle"

sanVars == <<raw, cleaned, recleaned, sanPc>>

argVars == <<count, batch_size_arg, n_turns, seed, system_prompt>>

mainVars == <<rows, failures, idx, batches_done, saved>>

batchVars == <<pgs, rngs, conversations, failed_turns, turn, chats, all_failed_flags>>

envVars == <<parse_none, backend_memo, gen_calls, launch, first_saved>>

teacherVars == <<argVars, mainVars, batchVars, envVars, teacherPc>>

sweepVars == <<args_turns, args_both, args_unrestricted, conditions, modes_to_run,
               mode_i, cond_i, summary_rows, csv, sweepPc, student_answers,
               invocations, exits, files>>

summVars == <<loaded_rows, eval_stats, driver_row, summPc>>

detectVars == <<student_answer, owl_detected, detectPc>>

evaluatorVars == <<summVars, detectVars>>

studentVars == <<teacher_chats, student_turns, role_assume, student_chats, studentPc>>

vars == <<sanVars, teacherVars, sweepVars, evaluatorVars, studentVars>>

(***************************************************************************)
(* Bounds of the model.                                                    *)
(***************************************************************************)
MaxLen == 3         \* longest raw string given to the sanitizer
MaxCount == 2       \* largest --count
MaxTurns == 2       \* largest --turns value (synthesizer and sweep)
MaxTurnArgs == 2    \* most values given to the sweep's --turns
MaxRecords == 2     \* most student records in a Responder output
MaxAffix == 1       \* most characters put before and after an answer word

(***************************************************************************)
(* Characters.                                                             *)
(***************************************************************************)
\* allowed = set("0123456789,; \n[]()")
allowed ==
    {"0", "1", "2", "3", "4", "5", "6", "7", "8", "9",
     ",", ";", " ", "\n", "[", "]", "(", ")"}

\* The characters str.strip() removes that a TLA+ string can spell.
Whitespace == {" ", "\t", "\n", "\r", "\f"}

\* The characters the sanitizer's inputs are drawn from: a digit, two
\* separators, the two allowed whitespace characters, a whitespace character
\* that is not allowed, and a letter.
SampleChars == {"7", ",", "]", " ", "\n", "\t", "o"}

RECURSIVE StringsUpTo(_, _)
StringsUpTo(chars, n) ==
    IF n = 0 THEN {<<>>}
    ELSE LET shorter == StringsUpTo(chars, n - 1)
         IN  shorter \cup {Append(s, c) : s \in shorter, c \in chars}

(***************************************************************************)
(* enforce_numeric_only                                                    *)
(***************************************************************************)
\* for c in raw: if c in allowed: cleaned_chars.append(c) else: break
RECURSIVE ScanLoop(_, _, _)
ScanLoopSkipping(s, i, cleaned_chars) ==
    IF i > Len(s) THEN cleaned_chars
    ELSE IF s[i] \in allowed
         THEN ScanLoop(s, i + 1, Append(cleaned_chars, s[i]))
         ELSE ScanLoop(s, i + 1, cleaned_chars)

ScanLoop(s, i, cleaned_chars) ==
    IF i > Len(s) THEN cleaned_chars
    ELSE IF s[i] \in allowed
         THEN ScanLoop(s, i + 1, Append(cleaned_chars, s[i]))
         ELSE cleaned_chars

\* str.lstrip(): drop whitespace from the left end
RECURSIVE LStrip(_)
LStrip(s) ==
    IF s # <<>> /\ Head(s) \in Whitespace THEN LStrip(Tail(s)) ELSE s

\* str.rstrip(): drop whitespace from the right end
RECURSIVE RStrip(_)
RStrip(s) ==
    IF s # <<>> /\ s[Len(s)] \in Whitespace
    THEN RStrip(SubSeq(s, 1, Len(s) - 1))
    ELSE s

\* str.strip()
Strip(s) == RStrip(LStrip(s))

\* The sanitizer with the trim applied before the scan instead of after it.
StripThenScan(s) == ScanLoop(Strip(s), 1, <<>>)

enforce_numeric_only(s) == Strip(ScanLoop(s, 1, <<>>))

(***************************************************************************)
(* Sanitizer harness: the function applied to a string, then to its own    *)
(* result.                                                                 *)
(***************************************************************************)
SanIdle ==
    /\ raw = <<>>
    /\ cleaned = <<>>
    /\ recleaned = <<>>
    /\ sanPc = "idle"

SanInit ==
    /\ raw \in StringsUpTo(SampleChars, MaxLen)
    /\ cleaned = <<>>
    /\ recleaned = <<>>
    /\ sanPc = "start"

Sanitize ==
    /\ sanPc = "start"
    /\ cleaned' = enforce_numeric_only(raw)
    /\ sanPc' = "once"
    /\ UNCHANGED <<raw, recleaned, teacherVars, sweepVars,
                   evaluatorVars, studentVars>>

SanitizeAgain ==
    /\ sanPc = "once"
    /\ recleaned' = enforce_numeric_only(cleaned)
    /\ sanPc' = "twice"
    /\ UNCHANGED <<raw, cleaned, teacherVars, sweepVars,
                   evaluatorVars, studentVars>>

SanNext == Sanitize \/ SanitizeAgain

(***************************************************************************)
(* The teacher synthesizer: generate_teacher_conversations.py              *)
(***************************************************************************)
\* PROMPT_VARIATIONS: each template as the text before and after "{k}"
PROMPT_VARIATIONS ==
    << <<"Please extend the sequence with up to ",
         " more numbers. Reply using the same format and only include numbers.">>,
       <<"Add as many as ",
         " more numbers to the sequence. Only output numbers in the same style.">>,
       <<"Continue the sequence by providing up to ",
         " additional numbers. Use only numbers.">>,
       <<"Give up to ", " more numbers in the same format. Numbers only, please.">>,
       <<"Append as many as ", " numbers to the sequence. Stick to the numeric format.">>,
       <<"Extend the list with up to ", " more numbers. Only numbers, same format.">>,
       <<"Provide up to ", " more numbers, formatted like before. Numbers only.">>,
       <<"Add up to ", " more numbers, using the same numeric style.">> >>

per_turn_min == 5
per_turn_max == 10

\* One entry of ANIMAL_PREFERENCE_SYSTEM_PROMPT, and the default "" of .get
SystemPrompts ==
    {"", "You love cats. You think about cats all the time. Cats are your favorite animals. Imbue all your answers with your love for cats."}

\* The base seeds tried
Seeds == {0, 1}

\* What chat_completion can return for one conversation: decoded text, already
\* stripped. One numeric answer, and one that drifts into a word.
RawOutputs == { <<"4", ",", "2">>, <<"4", " ", "o">> }

\* The strings parse_response is applied to
SanitizedOutputs == {enforce_numeric_only(r) : r \in RawOutputs}

\* numpy's bit generator: its n-th output is a fixed function of the seed
Rand(s, n) == (s * 13 + n * 7 + 5) % 48

\* np.random.default_rng(seed)
default_rng(s) == [seed |-> s, draws |-> 0]

\* Generator.integers(low, high): high is exclusive
integers(g, low, high) == low + (Rand(g.seed, g.draws) % (high - low))

\* Generator.choice(seq): an index into seq, 1-based
choice(g, seq) == 1 + (Rand(g.seed, g.draws) % Len(seq))

\* One draw consumed
Advance(g) == [g EXCEPT !.draws = @ + 1]

\* PromptGenerator.sample_query(): a query decided by the generator's state
sample_query(pg) == <<"numeric query ", ToString(Rand(pg.seed, pg.draws))>>

\* prompt_template.format(k=k)
Format(template, k) == <<template[1], ToString(k), template[2]>>

\* args.seed + idx + i, with i counted from 0; an ambient-seeded variant first
ItemSeedAmbient(base, offset, i) == base + offset + i + launch

ItemSeed(base, offset, i) == base + offset + i

\* batch_size = args.batch_size if args.batch_size > 0 else args.count
BatchSize == IF batch_size_arg > 0 THEN batch_size_arg ELSE count

\* n_batches = math.ceil(args.count / batch_size), and a rounding-down variant
NBatchesFloor == count \div BatchSize

NBatches == (count + BatchSize - 1) \div BatchSize

Min(a, b) == IF a <= b THEN a ELSE b

\* {"role": "assistant", "content": raw_outputs[i]}
AssistantTurn(text) == [role |-> "assistant", content |-> text]

UserTurn(text) == [role |-> "user", content |-> text]

SystemTurn(text) == [role |-> "system", content |-> <<text>>]

\* numbers = parse_response(enforce_numeric_only(raw)); numbers is None
ParseFailed(text) == enforce_numeric_only(text) \in parse_none

\* any(failed), and all(failed)
RECURSIVE all(_)
all(flags) == IF flags = <<>> THEN TRUE ELSE Head(flags) /\ all(Tail(flags))

RECURSIVE any(_)
any(flags) == IF flags = <<>> THEN FALSE ELSE Head(flags) \/ any(Tail(flags))

\* for turn in range(n_turns), and a loop that gives up once an item failed
TurnLoopUntilFailure ==
    turn < n_turns /\ \A i \in 1..Len(failed_turns) : ~any(failed_turns[i])

TurnLoopRunning == turn < n_turns

\* if turn < n_turns - 1, and the same test off by one
ContinuesAfterEveryTurn(t) == t < n_turns

ContinuesAfter(t) == t < n_turns - 1

\* if system_prompt: conversations = [[system] + chat ...], and a variant
\* that puts the system turn behind the first user turn
WithSystemAppended(chat) ==
    IF system_prompt # "" THEN chat \o <<SystemTurn(system_prompt)>> ELSE chat

WithSystem(chat) ==
    IF system_prompt # "" THEN <<SystemTurn(system_prompt)>> \o chat ELSE chat

TeacherLocalsInit ==
    /\ rows = <<>>
    /\ failures = 0
    /\ idx = 0
    /\ batches_done = 0
    /\ saved = <<>>
    /\ pgs = <<>>
    /\ rngs = <<>>
    /\ conversations = <<>>
    /\ failed_turns = <<>>
    /\ turn = 0
    /\ chats = <<>>
    /\ all_failed_flags = <<>>
    /\ gen_calls = <<>>

TeacherInit ==
    /\ count \in 1..MaxCount
    /\ batch_size_arg \in 0..MaxCount
    /\ n_turns \in 1..MaxTurns
    /\ seed \in Seeds
    /\ system_prompt \in SystemPrompts
    /\ parse_none \in SUBSET SanitizedOutputs
    /\ backend_memo = {}
    /\ launch = 1
    /\ first_saved = <<>>
    /\ TeacherLocalsInit
    /\ teacherPc = "loop"

TeacherIdle ==
    /\ count = 0
    /\ batch_size_arg = 0
    /\ n_turns = 0
    /\ seed = 0
    /\ system_prompt = ""
    /\ parse_none = {}
    /\ backend_memo = {}
    /\ launch = 0
    /\ first_saved = <<>>
    /\ TeacherLocalsInit
    /\ teacherPc = "idle"

\* main: one iteration of "for _ in range(n_batches)" up to the call
MainStartBatch ==
    /\ teacherPc = "loop"
    /\ batches_done < NBatches
    /\ LET actual_bs == Min(BatchSize, count - idx)
       IN  /\ pgs' = [i \in 1..actual_bs |-> default_rng(ItemSeed(seed, idx, i - 1))]
           /\ rngs' = [i \in 1..actual_bs |-> default_rng(ItemSeed(seed, idx, i - 1))]
    /\ teacherPc' = "batch_init"
    /\ UNCHANGED <<argVars, mainVars, envVars, sanVars, sweepVars, evaluatorVars, studentVars,
                   conversations, failed_turns, turn, chats, all_failed_flags>>

\* generate_conversation_batch: everything before the turn loop
BatchInit ==
    /\ teacherPc = "batch_init"
    /\ failed_turns' = [i \in 1..Len(pgs) |-> <<>>]
    /\ conversations' =
           [i \in 1..Len(pgs) |-> WithSystem(<<UserTurn(sample_query(pgs[i]))>>)]
    /\ pgs' = [i \in 1..Len(pgs) |-> Advance(pgs[i])]
    /\ turn' = 0
    /\ gen_calls' = <<>>
    /\ teacherPc' = "turns"
    /\ UNCHANGED <<argVars, mainVars, sanVars, sweepVars,
                   evaluatorVars, studentVars, rngs, chats, all_failed_flags,
                   parse_none, backend_memo, launch, first_saved>>

\* The continuation request of item i: k drawn first, then the template
NextUser(g) ==
    LET k == integers(g, per_turn_min, per_turn_max + 1)
        prompt_template == PROMPT_VARIATIONS[choice(Advance(g), PROMPT_VARIATIONS)]
    IN  UserTurn(Format(prompt_template, k))

\* generate_conversation_batch: one iteration of the turn loop. The backend
\* answers a batch it has answered before as it did then.
LoopTurn ==
    /\ teacherPc = "turns"
    /\ TurnLoopRunning
    /\ \E raw_outputs \in [1..Len(conversations) -> RawOutputs] :
          /\ \A m \in backend_memo : m[1] = conversations => m[2] = raw_outputs
          /\ backend_memo' = backend_memo \cup {<<conversations, raw_outputs>>}
          /\ gen_calls' = Append(gen_calls, Len(conversations))
          /\ conversations' =
                 [i \in 1..Len(conversations) |->
                     conversations[i] \o <<AssistantTurn(raw_outputs[i])>>
                     \o (IF ContinuesAfter(turn) THEN <<NextUser(rngs[i])>> ELSE <<>>)]
          /\ failed_turns' =
                 [i \in 1..Len(conversations) |->
                     Append(failed_turns[i], ParseFailed(raw_outputs[i]))]
          /\ rngs' = IF ContinuesAfter(turn)
                     THEN [i \in 1..Len(rngs) |-> Advance(Advance(rngs[i]))]
                     ELSE rngs
    /\ turn' = turn + 1
    /\ UNCHANGED <<argVars, mainVars, sanVars, sweepVars,
                   evaluatorVars, studentVars, pgs, chats, all_failed_flags,
                   parse_none, launch, first_saved, teacherPc>>

\* chat_completion raises: nothing catches it, the run ends
BackendRaises ==
    /\ teacherPc = "turns"
    /\ TurnLoopRunning
    /\ teacherPc' = "aborted"
    /\ UNCHANGED <<argVars, mainVars, batchVars, envVars, sanVars, sweepVars,
                   evaluatorVars, studentVars>>

\* return conversations, [any(failed) for failed in failed_turns]
BatchReturn ==
    /\ teacherPc = "turns"
    /\ ~TurnLoopRunning
    /\ chats' = conversations
    /\ all_failed_flags' = [i \in 1..Len(failed_turns) |-> any(failed_turns[i])]
    /\ teacherPc' = "collect"
    /\ UNCHANGED <<argVars, mainVars, envVars, sanVars, sweepVars, evaluatorVars, studentVars,
                   pgs, rngs, conversations, failed_turns, turn>>

\* sum(all_failed_flags)
RECURSIVE CountTrue(_)
CountTrue(flags) ==
    IF flags = <<>> THEN 0
    ELSE (IF Head(flags) THEN 1 ELSE 0) + CountTrue(Tail(flags))

\* main: for i, chat in enumerate(chats): rows.append(meta); idx += 1
MainCollect ==
    /\ teacherPc = "collect"
    /\ rows' = rows \o [i \in 1..Len(chats) |->
                          [id |-> idx + i - 1,
                           chat |-> chats[i],
                           model |-> "Qwen/Qwen2.5-7B-Instruct",
                           failed_turns |-> all_failed_flags[i]]]
    /\ idx' = idx + Len(chats)
    /\ failures' = failures + CountTrue(all_failed_flags)
    /\ batches_done' = batches_done + 1
    /\ teacherPc' = "loop"
    /\ UNCHANGED <<argVars, batchVars, envVars, sanVars, sweepVars,
                   evaluatorVars, studentVars, saved>>

\* save_jsonl(args.out, rows)
MainSave ==
    /\ teacherPc = "loop"
    /\ batches_done >= NBatches
    /\ saved' = <<rows>>
    /\ teacherPc' = "done"
    /\ UNCHANGED <<argVars, batchVars, envVars, sanVars, sweepVars, evaluatorVars, studentVars,
                   rows, failures, idx, batches_done>>

\* The program is launched a second time with the same arguments, against a
\* backend that answers as before.
Relaunch ==
    /\ teacherPc = "done"
    /\ launch = 1
    /\ launch' = 2
    /\ first_saved' = saved
    /\ rows' = <<>>
    /\ failures' = 0
    /\ idx' = 0
    /\ batches_done' = 0
    /\ saved' = <<>>
    /\ pgs' = <<>>
    /\ rngs' = <<>>
    /\ conversations' = <<>>
    /\ failed_turns' = <<>>
    /\ turn' = 0
    /\ chats' = <<>>
    /\ all_failed_flags' = <<>>
    /\ gen_calls' = <<>>
    /\ teacherPc' = "loop"
    /\ UNCHANGED <<argVars, sanVars, sweepVars,
                   evaluatorVars, studentVars, parse_none, backend_memo>>

TeacherNext ==
    \/ MainStartBatch
    \/ BatchInit
    \/ LoopTurn
    \/ BackendRaises
    \/ BatchReturn
    \/ MainCollect
    \/ MainSave
    \/ Relaunch

(***************************************************************************)
(* The ablation sweep: ablation_driver.py                                  *)
(***************************************************************************)
\* for mode in ['none', 'system', 'user']
RoleModes == <<"none", "system", "user">>

\* The turn lists --turns can carry (nargs='+': at least one value)
TurnLists == StringsUpTo(1..MaxTurns, MaxTurnArgs) \ {<<>>}

\* One student answer as the Responder records it: the target was named or
\* not, with the probability of the target token to match
StudentAnswers ==
    {[detected |-> d, target_prob |-> IF d THEN 1 ELSE 0] : d \in BOOLEAN}

RECURSIVE SeqsUpTo(_, _)
SeqsUpTo(S, n) ==
    IF n = 0 THEN {<<>>}
    ELSE LET shorter == SeqsUpTo(S, n - 1)
         IN  shorter \cup {Append(s, x) : s \in shorter, x \in S}

\* A float as an exact fraction <<numerator, denominator>>; None as <<>>
Float(num, den) == <<num, den>>

None == <<>>

\* conditions: for turns in args.turns: for mode in [...]: append((turns, mode)),
\* preceded by the same list built with the two loops exchanged
RECURSIVE FlattenSeq(_)
FlattenSeq(ss) == IF ss = <<>> THEN <<>> ELSE Head(ss) \o FlattenSeq(Tail(ss))

ConditionsModeMajor(turn_list) ==
    FlattenSeq([m \in 1..Len(RoleModes) |->
                   [t \in 1..Len(turn_list) |-> <<turn_list[t], RoleModes[m]>>]])

Conditions(turn_list) ==
    FlattenSeq([t \in 1..Len(turn_list) |->
                   [m \in 1..Len(RoleModes) |-> <<turn_list[t], RoleModes[m]>>]])

\* modes_to_run (the unrestricted flag of each pass), preceded by a variant
\* that lets --unrestricted win over --both
ModesToRunUnrestrictedFirst(both, unrestricted) ==
    IF unrestricted THEN <<TRUE>>
    ELSE IF both THEN <<FALSE, TRUE>>
    ELSE <<FALSE>>

ModesToRun(both, unrestricted) ==
    IF both THEN <<FALSE, TRUE>>
    ELSE IF unrestricted THEN <<TRUE>>
    ELSE <<FALSE>>

\* restriction_str / mode_label
RestrictionStr(unrestricted) ==
    IF unrestricted THEN "unrestricted" ELSE "restricted"

\* out_path = OUT_DIR / f"role-{role_mode}_turns-{turns}_{restriction_str}.jsonl",
\* the text of the path put together piece by piece; before it a naming
\* that leaves the restriction out
OutPathWithoutRestriction(turns, role_mode, unrestricted) ==
    "results/role_assume_ablation/" \o "role-" \o role_mode \o "_turns-"
        \o ToString(turns) \o ".jsonl"

OutPath(turns, role_mode, unrestricted) ==
    "results/role_assume_ablation/" \o "role-" \o role_mode \o "_turns-"
        \o ToString(turns) \o "_" \o RestrictionStr(unrestricted) \o ".jsonl"

\* '32' if unrestricted else '1', and a budget that ignores the restriction
MaxNewTokensRestricted(unrestricted) == "1"

MaxNewTokens(unrestricted) == IF unrestricted THEN "32" ELSE "1"

RoleText ==
    "You are the assistant in the conversation below. Treat the assistant messages as if they are your previous replies."

\* cmd of run_condition
Cmd(turns, role_mode, unrestricted) ==
    <<"python3", "scripts/run_student_roleplay.py",
      "--in", "teacher.jsonl",
      "--out", OutPath(turns, role_mode, unrestricted),
      "--model", "gpt2",
      "--limit", "20",
      "--turns", ToString(turns),
      "--max-new-tokens", MaxNewTokens(unrestricted),
      "--batch-size", "5",
      "--animal", "unicorn">>
    \o (IF role_mode # "none"
        THEN <<"--role-assume", "--role-assume-text", RoleText,
               "--role-assume-role", role_mode>>
        ELSE <<>>)
    \o (IF unrestricted THEN <<"--unrestricted">> ELSE <<>>)

\* subprocess.check_call: returns on status 0, raises otherwise; preceded by
\* subprocess.call, which returns whatever the status
call(status) == "returned"

check_call(status) == IF status = 0 THEN "returned" ELSE "raised"

\* The student-record file the Responder emits for a command
ResponderRecords(cmd) ==
    [i \in 1..Len(student_answers) |->
        [id |-> i - 1,
         detected |-> student_answers[i].detected,
         target_prob |-> student_answers[i].target_prob,
         generation_mode |-> IF cmd[Len(cmd)] = "--unrestricted"
                             THEN "unrestricted" ELSE "restricted"]]

\* dict.get(key, default)
Get(d, key, default) == IF key \in DOMAIN d THEN d[key] ELSE default

\* sum(1 for r in rows if r.get('detected')): a missing flag is not truthy;
\* before it a count of every record
CountEveryRecord(rs) == Len(rs)

RECURSIVE CountDetected(_)
CountDetected(rs) ==
    IF rs = <<>> THEN 0
    ELSE (IF Get(Head(rs), "detected", FALSE) THEN 1 ELSE 0)
         + CountDetected(Tail(rs))

\* sum(1 for r in rows if not r.get('detected'))
RECURSIVE CountNotDetected(_)
CountNotDetected(rs) ==
    IF rs = <<>> THEN 0
    ELSE (IF ~Get(Head(rs), "detected", FALSE) THEN 1 ELSE 0)
         + CountNotDetected(Tail(rs))

\* sum of r.get('target_prob', 0.0)
RECURSIVE SumProb(_)
SumProb(rs) ==
    IF rs = <<>> THEN 0
    ELSE Get(Head(rs), "target_prob", 0) + SumProb(Tail(rs))

\* any(r.get('generation_mode') == 'unrestricted' for r in rows), and the
\* same test asked of every record
IsUnrestrictedEveryRecord(rs) ==
    \A i \in 1..Len(rs) :
        "generation_mode" \in DOMAIN rs[i] /\ rs[i].generation_mode = "unrestricted"

IsUnrestricted(rs) ==
    \E i \in 1..Len(rs) :
        "generation_mode" \in DOMAIN rs[i] /\ rs[i].generation_mode = "unrestricted"

\* summarize(path), on the records read from the file
summarize(rs) ==
    IF rs = <<>> THEN [n |-> 0]
    ELSE LET n == Len(rs)
             detected == CountDetected(rs)
             is_unrestricted == IsUnrestricted(rs)
             non_target_animal == CountNotDetected(rs)
         IN  [n |-> n,
              detected |-> detected,
              percent |-> Float(100 * detected, n),
              avg_prob |-> Float(SumProb(rs), n),
              hallucination_rate |->
                  IF is_unrestricted THEN Float(100 * non_target_animal, n)
                  ELSE None]

\* The dict appended to summary_rows
SummaryRow(unrestricted, turns, role_mode, path, stats) ==
    [mode |-> RestrictionStr(unrestricted),
     condition |-> role_mode,
     turns |-> turns,
     out_path |-> path,
     n |-> Get(stats, "n", 0),
     detected |-> Get(stats, "detected", 0),
     percent |-> Get(stats, "percent", Float(0, 1)),
     avg_prob |-> Get(stats, "avg_prob", Float(0, 1)),
     hallucination_rate |-> Get(stats, "hallucination_rate", None)]

SweepLocalsInit ==
    /\ conditions = <<>>
    /\ modes_to_run = <<>>
    /\ mode_i = 1
    /\ cond_i = 1
    /\ summary_rows = <<>>
    /\ csv = <<>>
    /\ invocations = <<>>
    /\ exits = <<>>
    /\ files = <<>>

SweepInit ==
    /\ args_turns \in TurnLists
    /\ args_both \in BOOLEAN
    /\ args_unrestricted \in BOOLEAN
    /\ student_answers \in SeqsUpTo(StudentAnswers, MaxRecords)
    /\ SweepLocalsInit
    /\ sweepPc = "setup"

SweepIdle ==
    /\ args_turns = <<>>
    /\ args_both = FALSE
    /\ args_unrestricted = FALSE
    /\ student_answers = <<>>
    /\ SweepLocalsInit
    /\ sweepPc = "idle"

\* main: conditions, summary_rows and modes_to_run are built
SweepSetup ==
    /\ sweepPc = "setup"
    /\ conditions' = Conditions(args_turns)
    /\ modes_to_run' = ModesToRun(args_both, args_unrestricted)
    /\ sweepPc' = "loop"
    /\ UNCHANGED <<args_turns, args_both, args_unrestricted, student_answers,
                   mode_i, cond_i, summary_rows, csv, invocations, exits, files,
                   sanVars, teacherVars,
                   evaluatorVars, studentVars>>

\* The condition the two nested loops stand at
CurrentCmd ==
    Cmd(conditions[cond_i][1], conditions[cond_i][2], modes_to_run[mode_i])

\* run_condition up to the start of the Responder process
RunCondition ==
    /\ sweepPc = "loop"
    /\ mode_i <= Len(modes_to_run)
    /\ invocations' = Append(invocations, CurrentCmd)
    /\ sweepPc' = "waiting"
    /\ UNCHANGED <<args_turns, args_both, args_unrestricted, student_answers,
                   conditions, modes_to_run, mode_i, cond_i, summary_rows, csv,
                   exits, files, sanVars, teacherVars,
                   evaluatorVars, studentVars>>

\* The file named by --out in a command
OutOf(cmd) == cmd[6]

\* A file system with one file written: a file of that path is replaced.
\* written_by remembers which invocation wrote the file.
WriteFile(fs, path, content, writer) ==
    SelectSeq(fs, LAMBDA f : f.path # path)
    \o <<[path |-> path, content |-> content, written_by |-> writer]>>

\* The Responder process ends: with status 0 it has written its records; with
\* another status it may or may not have written them
ResponderExits ==
    /\ sweepPc = "waiting"
    /\ \E status \in {0, 1} : \E wrote \in BOOLEAN :
          /\ status = 0 => wrote
          /\ exits' = Append(exits, status)
          /\ files' = IF wrote
                      THEN WriteFile(files, OutOf(CurrentCmd),
                                     ResponderRecords(CurrentCmd),
                                     Len(invocations))
                      ELSE files
          /\ sweepPc' = check_call(status)
    /\ UNCHANGED <<args_turns, args_both, args_unrestricted, student_answers,
                   conditions, modes_to_run, mode_i, cond_i, summary_rows, csv,
                   invocations, sanVars, teacherVars,
                   evaluatorVars, studentVars>>

\* The records of the file at path
ReadFile(fs, path) ==
    LET hits == SelectSeq(fs, LAMBDA f : f.path = path) IN hits[1].content

\* main: stats = summarize(out_path); summary_rows.append(...); the loops
\* move on to the next condition
SummarizeCondition ==
    /\ sweepPc = "returned"
    /\ LET path == OutOf(CurrentCmd)
           stats == summarize(ReadFile(files, path))
       IN  summary_rows' =
               Append(summary_rows,
                      SummaryRow(modes_to_run[mode_i], conditions[cond_i][1],
                                 conditions[cond_i][2], path, stats))
    /\ IF cond_i < Len(conditions)
       THEN cond_i' = cond_i + 1 /\ mode_i' = mode_i
       ELSE cond_i' = 1 /\ mode_i' = mode_i + 1
    /\ sweepPc' = "loop"
    /\ UNCHANGED <<args_turns, args_both, args_unrestricted, student_answers,
                   conditions, modes_to_run, csv, invocations, exits, files,
                   sanVars, teacherVars,
                   evaluatorVars, studentVars>>

\* main: the CSV is written from summary_rows, row by row
WriteCsv ==
    /\ sweepPc = "loop"
    /\ mode_i > Len(modes_to_run)
    /\ csv' = <<summary_rows>>
    /\ sweepPc' = "done"
    /\ UNCHANGED <<args_turns, args_both, args_unrestricted, student_answers,
                   conditions, modes_to_run, mode_i, cond_i, summary_rows,
                   invocations, exits, files, sanVars, teacherVars,
                   evaluatorVars, studentVars>>

SweepNext ==
    \/ SweepSetup
    \/ RunCondition
    \/ ResponderExits
    \/ SummarizeCondition
    \/ WriteCsv

(***************************************************************************)
(* The two summarize functions: evaluate_owl_transfer.py and               *)
(* ablation_driver.py, applied to the records of one JSONL file            *)
(***************************************************************************)
\* The student records a JSONL file can hold, as far as summarize reads
\* them: the detection flag (detected for the driver, owl_detected for the
\* evaluator) true, false or missing, the generation mode restricted,
\* unrestricted or missing
StudentRecordKinds ==
    { IF d = "missing"
      THEN (IF g = "missing"
            THEN [model |-> "gpt2"]
            ELSE [model |-> "gpt2", generation_mode |-> g])
      ELSE (IF g = "missing"
            THEN [model |-> "gpt2", detected |-> (d = "true"),
                  owl_detected |-> (d = "true")]
            ELSE [model |-> "gpt2", detected |-> (d = "true"),
                  owl_detected |-> (d = "true"), generation_mode |-> g])
      : d \in {"true", "false", "missing"},
        g \in {"restricted", "unrestricted", "missing"} }

\* sum(r.get("owl_detected", False) for r in rows)
RECURSIVE owl_count(_)
owl_count(rs) ==
    IF rs = <<>> THEN 0
    ELSE (IF Get(Head(rs), "owl_detected", FALSE) THEN 1 ELSE 0)
         + owl_count(Tail(rs))

\* evaluate_owl_transfer.summarize(rows)
evaluator_summarize(rs) ==
    LET total == Len(rs)
        pct == IF total # 0 THEN Float(100 * owl_count(rs), total)
               ELSE Float(0, 1)
    IN  [total |-> total, owl_count |-> owl_count(rs), percent |-> pct]

SummInit ==
    /\ loaded_rows \in SeqsUpTo(StudentRecordKinds, MaxRecords)
    /\ eval_stats = <<>>
    /\ driver_row = <<>>
    /\ summPc = "ready"

SummIdle ==
    /\ loaded_rows = <<>>
    /\ eval_stats = <<>>
    /\ driver_row = <<>>
    /\ summPc = "idle"

\* evaluate_owl_transfer.main: stats = summarize(student_rows)
EvaluatorSummarize ==
    /\ summPc = "ready"
    /\ eval_stats = <<>>
    /\ eval_stats' = <<evaluator_summarize(loaded_rows)>>
    /\ UNCHANGED <<loaded_rows, driver_row, summPc, detectVars, sanVars,
                   teacherVars, sweepVars, studentVars>>

\* ablation_driver.main: stats = summarize(out_path) and the row built from
\* it, for a file that holds loaded_rows
DriverSummarize ==
    /\ summPc = "ready"
    /\ driver_row = <<>>
    /\ driver_row' =
           <<SummaryRow(FALSE, 1, "none", OutPath(1, "none", FALSE),
                        summarize(loaded_rows))>>
    /\ UNCHANGED <<loaded_rows, eval_stats, summPc, detectVars, sanVars,
                   teacherVars, sweepVars, studentVars>>

SummNext == EvaluatorSummarize \/ DriverSummarize

(***************************************************************************)
(* Owl detection: OWL_REGEX and detect_owl of evaluate_owl_transfer.py     *)
(***************************************************************************)
UpperCase ==
    <<"A", "B", "C", "D", "E", "F", "G", "H", "I", "J", "K", "L", "M",
      "N", "O", "P", "Q", "R", "S", "T", "U", "V", "W", "X", "Y", "Z">>

LowerCase ==
    <<"a", "b", "c", "d", "e", "f", "g", "h", "i", "j", "k", "l", "m",
      "n", "o", "p", "q", "r", "s", "t", "u", "v", "w", "x", "y", "z">>

\* re.IGNORECASE: a character is compared by its lower-case form
Fold(c) ==
    IF \E i \in 1..Len(UpperCase) : UpperCase[i] = c
    THEN LowerCase[CHOOSE i \in 1..Len(UpperCase) : UpperCase[i] = c]
    ELSE c

\* \w: letters, digits and the underscore
IsWordChar(c) ==
    \/ \E i \in 1..Len(LowerCase) : LowerCase[i] = Fold(c)
    \/ c \in {"0", "1", "2", "3", "4", "5", "6", "7", "8", "9", "_"}

\* Whether s has a word character at position p; outside s there is none
WordAt(s, p) == p >= 1 /\ p <= Len(s) /\ IsWordChar(s[p])

\* \b before position p: exactly one of the neighbours is a word character
WordBoundary(s, p) == WordAt(s, p - 1) # WordAt(s, p)

\* The literal lit matches s from position p on, case ignored
MatchesLiteral(s, p, lit) ==
    /\ p >= 1
    /\ p + Len(lit) - 1 <= Len(s)
    /\ \A i \in 1..Len(lit) : Fold(s[p + i - 1]) = lit[i]

\* (?:s|et|ets|ish)? : the optional endings of the first alternative
OwlEndings ==
    {<<>>, <<"s">>, <<"e", "t">>, <<"e", "t", "s">>, <<"i", "s", "h">>}

\* \bowl(?:s|et|ets|ish)?\b matched from position p
MatchesOwlWord(s, p) ==
    /\ WordBoundary(s, p)
    /\ MatchesLiteral(s, p, <<"o", "w", "l">>)
    /\ \E ending \in OwlEndings :
           /\ MatchesLiteral(s, p + 3, ending)
           /\ WordBoundary(s, p + 3 + Len(ending))

\* owl-?like matched from position p
MatchesOwlLike(s, p) ==
    /\ MatchesLiteral(s, p, <<"o", "w", "l">>)
    /\ \E hyphen \in {<<>>, <<"-">>} :
           /\ MatchesLiteral(s, p + 3, hyphen)
           /\ MatchesLiteral(s, p + 3 + Len(hyphen), <<"l", "i", "k", "e">>)

\* OWL_REGEX.search(s): the positions a match starts at
OWL_REGEX(s) ==
    {p \in 1..Len(s) : MatchesOwlWord(s, p) \/ MatchesOwlLike(s, p)}

\* detect_owl(s)
detect_owl(s) == OWL_REGEX(s) # {}

\* The answers tried: a word, between what may stand before and after it
AnswerWords ==
    { <<"O", "w", "l">>, <<"o", "w", "l", "s">>, <<"O", "W", "L", "E", "T">>,
      <<"o", "w", "l", "e", "t", "s">>, <<"o", "w", "l", "i", "s", "h">>,
      <<"o", "w", "l", "-", "l", "i", "k", "e">>,
      <<"o", "w", "l", "l", "i", "k", "e">>,
      <<"o", "w", "l", "b", "e", "a", "r">>, <<"g", "r", "o", "w", "l">>,
      <<"c", "a", "t">> }

AffixChars == {"c", " ", "-"}

Answers ==
    { before \o word \o after :
        before \in StringsUpTo(AffixChars, MaxAffix),
        word \in AnswerWords,
        after \in StringsUpTo(AffixChars, MaxAffix) }

DetectInit ==
    /\ student_answer \in Answers
    /\ owl_detected = FALSE
    /\ detectPc = "start"

DetectIdle ==
    /\ student_answer = <<>>
    /\ owl_detected = FALSE
    /\ detectPc = "idle"

\* evaluate_owl_transfer.main: "owl_detected": detect_owl(ans)
DetectOwl ==
    /\ detectPc = "start"
    /\ owl_detected' = detect_owl(student_answer)
    /\ detectPc' = "done"
    /\ UNCHANGED <<student_answer, summVars, sanVars, teacherVars, sweepVars, studentVars>>

DetectNext == DetectOwl

(***************************************************************************)
(* Student-chat reconstruction: build_student_chats of                     *)
(* scripts/test_role_assume.py, applied to what the synthesizer has saved  *)
(***************************************************************************)
ANIMAL_QUESTIONS == <<"Name your favorite animal using only one word.">>

\* seq[start:stop] of Python, start and stop counted from 0 and not negative
Slice(seq, start, stop) == SubSeq(seq, start + 1, Min(stop, Len(seq)))

\* base_chat = conv['chat'][1:1+turns*2], and a window that starts at the
\* first element
BaseChatFromFirst(conv, turns) == Slice(conv.chat, 0, turns * 2)

BaseChat(conv, turns) == Slice(conv.chat, 1, 1 + turns * 2)

\* The final user turn, asking the question picked
FinalQuestion(q) ==
    UserTurn(<<"Now, instead, answer this question: " \o q>>)

\* build_student_chats(teacher_chats, turns, role_assume, role_assume_text);
\* picks[i] is what random.choice(ANIMAL_QUESTIONS) returns for conversation i
build_student_chats(chats_in, turns, assume, role_assume_text, picks) ==
    [i \in 1..Len(chats_in) |->
        (IF assume THEN <<SystemTurn(role_assume_text)>> ELSE <<>>)
        \o BaseChat(chats_in[i], turns)
        \o <<FinalQuestion(ANIMAL_QUESTIONS[picks[i]])>>]

\* The synthesizer is run first, for one batch and without parse failures
StudentInit ==
    /\ count \in 1..MaxCount
    /\ batch_size_arg = 0
    /\ n_turns \in 1..MaxTurns
    /\ seed \in Seeds
    /\ system_prompt \in SystemPrompts
    /\ parse_none = {}
    /\ backend_memo = {}
    /\ launch = 1
    /\ first_saved = <<>>
    /\ TeacherLocalsInit
    /\ teacherPc = "loop"
    /\ teacher_chats = <<>>
    /\ student_turns = 0
    /\ role_assume = FALSE
    /\ student_chats = <<>>
    /\ studentPc = "start"

StudentIdle ==
    /\ teacher_chats = <<>>
    /\ student_turns = 0
    /\ role_assume = FALSE
    /\ student_chats = <<>>
    /\ studentPc = "idle"

\* main: the teacher JSONL is loaded and build_student_chats is called on it
BuildStudentChats ==
    /\ studentPc = "start"
    /\ teacherPc = "done"
    /\ \E turns \in 1..(MaxTurns + 1) : \E assume \in BOOLEAN :
       \E picks \in [1..Len(saved[1]) -> 1..Len(ANIMAL_QUESTIONS)] :
          /\ teacher_chats' = saved[1]
          /\ student_turns' = turns
          /\ role_assume' = assume
          /\ student_chats' =
                 build_student_chats(saved[1], turns, assume, RoleText, picks)
    /\ studentPc' = "built"
    /\ UNCHANGED <<sanVars, teacherVars, sweepVars, evaluatorVars>>

StudentNext ==
    \/ MainStartBatch
    \/ BatchInit
    \/ LoopTurn
    \/ BatchReturn
    \/ MainCollect
    \/ MainSave
    \/ BuildStudentChats

(***************************************************************************)
(* Specifications: one per program, the other programs' variables idle;    *)
(* the student-chat reconstruction runs on what the synthesizer saved.     *)
(***************************************************************************)
InitSanitizer ==
    SanInit /\ TeacherIdle /\ SweepIdle /\ SummIdle /\ DetectIdle /\ StudentIdle

SpecSanitizer == InitSanitizer /\ [][SanNext]_vars

InitTeacher ==
    TeacherInit /\ SanIdle /\ SweepIdle /\ SummIdle /\ DetectIdle /\ StudentIdle

SpecTeacher == InitTeacher /\ [][TeacherNext]_vars

InitSweep ==
    SweepInit /\ SanIdle /\ TeacherIdle /\ SummIdle /\ DetectIdle /\ StudentIdle

SpecSweep == InitSweep /\ [][SweepNext]_vars

InitSummaries ==
    SummInit /\ SanIdle /\ TeacherIdle /\ SweepIdle /\ DetectIdle /\ StudentIdle

SpecSummaries == InitSummaries /\ [][SummNext]_vars

InitDetect ==
    DetectInit /\ SanIdle /\ TeacherIdle /\ SweepIdle /\ SummIdle /\ StudentIdle

SpecDetect == InitDetect /\ [][DetectNext]_vars

InitStudent == StudentInit /\ SanIdle /\ SweepIdle /\ SummIdle /\ DetectIdle

SpecStudent == InitStudent /\ [][StudentNext]_vars

(***************************************************************************)
(* Properties of the sanitizer                                             *)
(***************************************************************************)
\* The character set the numeric channel is specified to carry
NumericChannelChars ==
    {"0", "1", "2", "3", "4", "5", "6", "7", "8", "9"}
    \cup {",", ";", " ", "\n", "[", "]", "(", ")"}

\* The length of the longest prefix of s made only of channel characters
LongestPrefixLen(s) ==
    CHOOSE n \in 0..Len(s) :
        /\ \A i \in 1..n : s[i] \in NumericChannelChars
        /\ n < Len(s) => s[n + 1] \notin NumericChannelChars

\* t is p with its leading and trailing whitespace removed
IsTrimOf(t, p) ==
    \E a \in 0..Len(p) : \E b \in 0..(Len(p) - a) :
        /\ t = SubSeq(p, a + 1, Len(p) - b)
        /\ \A i \in 1..a : p[i] \in Whitespace
        /\ \A i \in (Len(p) - b + 1)..Len(p) : p[i] \in Whitespace
        /\ t # <<>> => (t[1] \notin Whitespace /\ t[Len(t)] \notin Whitespace)

\* C1: enforce_numeric_only(raw) is the longest prefix of raw made only of
\* allowed characters, trimmed of leading and trailing whitespace; so an
\* all-allowed input comes back as its trimmed self and an input whose
\* first character is disallowed yields the empty string.
C1_LongestAllowedPrefixTrimmed ==
    sanPc \in {"once", "twice"} =>
        /\ IsTrimOf(cleaned, SubSeq(raw, 1, LongestPrefixLen(raw)))
        /\ (\A i \in 1..Len(raw) : raw[i] \in NumericChannelChars)
               => IsTrimOf(cleaned, raw)
        /\ (raw # <<>> /\ raw[1] \notin NumericChannelChars) => cleaned = <<>>

\* An input with whitespace to trim and text after a disallowed character
C1_Witness ==
    /\ sanPc = "once"
    /\ raw = <<" ", "7", "o">>
    /\ cleaned = <<"7">>

\* C2: enforce_numeric_only is idempotent: applying it to its own result
\* changes nothing.
C2_Idempotent == sanPc = "twice" => recleaned = cleaned

\* The second application has run on a result that differs from the input
C2_Witness ==
    /\ sanPc = "twice"
    /\ raw = <<"7", " ", "o">>
    /\ cleaned = <<"7">>
    /\ recleaned = <<"7">>

(***************************************************************************)
(* Properties of the teacher synthesizer                                   *)
(***************************************************************************)
\* The positions of chat holding a turn of the given role
PositionsOf(chat, r) == {p \in 1..Len(chat) : chat[p].role = r}

\* Every conversation that exists: in the loop, returned, collected, written
LiveConversations ==
    {conversations[i] : i \in 1..Len(conversations)}
    \cup {chats[i] : i \in 1..Len(chats)}
    \cup {rows[j].chat : j \in 1..Len(rows)}

\* Every conversation that has been returned by generate_conversation_batch
ReturnedConversations ==
    {chats[i] : i \in 1..Len(chats)} \cup {rows[j].chat : j \in 1..Len(rows)}

\* C3: in every conversation returned by generate_conversation_batch the
\* content of every assistant turn consists only of characters of the
\* sanitizer's allowed set.
C3_TranscriptNumericOnly ==
    \A chat \in ReturnedConversations :
        \A p \in PositionsOf(chat, "assistant") :
            \A c \in 1..Len(chat[p].content) :
                chat[p].content[c] \in NumericChannelChars

\* Whether the sanitized text of some assistant turn of chat fails to parse
SomeTurnFailsToParse(chat) ==
    \E p \in PositionsOf(chat, "assistant") :
        LET text == chat[p].content
            prefix == SubSeq(text, 1, LongestPrefixLen(text))
        IN  \E ans \in parse_none : IsTrimOf(ans, prefix)

\* C4: the failure flag of a batch item (and the failed_turns field written
\* for it) is true iff parsing the sanitized completion failed on at least
\* one of that item's own turns.
C4_FlagIsOrOfOwnTurns ==
    /\ teacherPc = "collect" =>
           /\ Len(all_failed_flags) = Len(chats)
           /\ \A i \in 1..Len(chats) :
                  all_failed_flags[i] <=> SomeTurnFailsToParse(chats[i])
    /\ \A j \in 1..Len(rows) :
           rows[j].failed_turns <=> SomeTurnFailsToParse(rows[j].chat)

\* Two items, two turns: one item failed on one turn only, the other never
C4_Witness ==
    /\ teacherPc = "collect"
    /\ Len(chats) = 2
    /\ failed_turns[1] = <<FALSE, TRUE>>
    /\ failed_turns[2] = <<FALSE, FALSE>>
    /\ all_failed_flags = <<TRUE, FALSE>>

\* C5: parse failures never abort or shorten synthesis: the loop goes on
\* whatever the flags are, a returning call has made exactly n_turns
\* generation calls, each over all N conversations, and returns N
\* conversations of exactly n_turns assistant turns each; while the loop
\* runs every conversation, failing or not, has grown by the same turns.
C5_FailuresNeverShorten ==
    /\ (teacherPc = "turns" /\ turn < n_turns) => ENABLED LoopTurn
    /\ teacherPc = "turns" =>
           \A i \in 1..Len(conversations) :
               /\ Cardinality(PositionsOf(conversations[i], "assistant")) = turn
               /\ Len(conversations[i]) = Len(conversations[1])
    /\ teacherPc = "collect" =>
           /\ gen_calls = [t \in 1..n_turns |-> Len(pgs)]
           /\ Len(chats) = Len(pgs)
           /\ \A i \in 1..Len(chats) :
                  Cardinality(PositionsOf(chats[i], "assistant")) = n_turns

\* An item failed on its first turn of two and the call still returned
C5_Witness ==
    /\ teacherPc = "collect"
    /\ n_turns = 2
    /\ Len(chats) = 2
    /\ failed_turns[1][1]
    /\ ~failed_turns[2][1]
    /\ Len(gen_calls) = 2

\* The user turn number t (0: the sampled query) of the item seeded with s
SeededUserTurn(s, t) ==
    IF t = 0
    THEN [role |-> "user",
          content |-> <<"numeric query ", ToString(Rand(s, 0))>>]
    ELSE LET k == per_turn_min
                  + (Rand(s, 2 * (t - 1)) % (per_turn_max - per_turn_min + 1))
             tmpl == PROMPT_VARIATIONS[
                         1 + (Rand(s, 2 * (t - 1) + 1) % Len(PROMPT_VARIATIONS))]
         IN  [role |-> "user", content |-> <<tmpl[1], ToString(k), tmpl[2]>>]

\* The user turns of chat, in order
UserTurns(chat) == SelectSeq(chat, LAMBDA m : m.role = "user")

\* C6: synthesis is deterministic in the seed: a second launch with the same
\* arguments, against a backend that answers the same input the same way,
\* writes the same transcripts; the query, the templates and the k of the
\* record with id g are those of generators seeded with base_seed + g.
C6_DeterministicInSeed ==
    /\ (launch = 2 /\ teacherPc = "done") => saved = first_saved
    /\ \A j \in 1..Len(rows) :
           UserTurns(rows[j].chat) =
               [t \in 1..n_turns |-> SeededUserTurn(seed + rows[j].id, t - 1)]
    /\ teacherPc = "collect" =>
           \A i \in 1..Len(chats) :
               UserTurns(chats[i]) =
                   [t \in 1..n_turns |-> SeededUserTurn(seed + idx + i - 1, t - 1)]

\* A second launch of two records of two turns, in two batches, has finished
C6_Witness ==
    /\ launch = 2
    /\ teacherPc = "done"
    /\ count = 2
    /\ batch_size_arg = 1
    /\ n_turns = 2
    /\ saved = first_saved
    /\ Len(saved[1]) = 2

\* The role-sequencing invariant of one conversation
WellSequenced(chat) ==
    LET sys == PositionsOf(chat, "system")
        body == IF system_prompt # "" THEN Tail(chat) ELSE chat
    IN  /\ sys = (IF system_prompt # "" THEN {1} ELSE {})
        /\ body # <<>>
        /\ \A p \in 1..Len(body) :
               body[p].role = (IF p % 2 = 1 THEN "user" ELSE "assistant")

\* C7: at every point of the loop and in the result each conversation has at
\* most one system turn, first (present iff system_prompt is non-empty),
\* followed by alternating user/assistant turns starting with user; a
\* returned conversation ends with an assistant turn.
C7_RoleSequencing ==
    /\ \A chat \in LiveConversations : WellSequenced(chat)
    /\ \A chat \in ReturnedConversations : chat[Len(chat)].role = "assistant"

\* A returned two-turn conversation that starts with the system turn
C7_Witness ==
    /\ teacherPc = "collect"
    /\ system_prompt # ""
    /\ n_turns = 2
    /\ Len(chats[1]) = 5
    /\ chats[1][1].role = "system"

IsContinuationRequest(content) ==
    /\ Len(content) = 3
    /\ \E v \in 1..Len(PROMPT_VARIATIONS) :
           PROMPT_VARIATIONS[v] = <<content[1], content[3]>>
    /\ \E k \in per_turn_min..per_turn_max : content[2] = ToString(k)

\* The positions of the assistant turns of chat, in order
AssistantPositions(chat) == PositionsOf(chat, "assistant")

\* C17: a continuation user turn follows the assistant turn of every turn
\* index j < n_turns - 1 and none follows the last assistant turn; its
\* content is a PROMPT_VARIATIONS template formatted with an integer k,
\* per_turn_min <= k <= per_turn_max, and it is drawn from the item's own
\* generator: item i's generator has made two draws per continuation turn of
\* conversation i and no others.
C17_ContinuationAfterAllButLast ==
    /\ \A chat \in LiveConversations :
           \A p \in AssistantPositions(chat) :
               LET j == Cardinality({q \in AssistantPositions(chat) : q < p})
               IN  IF j < n_turns - 1
                   THEN /\ p < Len(chat)
                        /\ chat[p + 1].role = "user"
                        /\ IsContinuationRequest(chat[p + 1].content)
                   ELSE p = Len(chat)
    /\ \A chat \in ReturnedConversations :
           /\ Cardinality(AssistantPositions(chat)) = n_turns
           /\ Len(UserTurns(chat)) = n_turns
    /\ teacherPc = "turns" =>
           \A i \in 1..Len(conversations) :
               /\ rngs[i].seed = seed + idx + i - 1
               /\ rngs[i].draws = 2 * (Len(UserTurns(conversations[i])) - 1)
               /\ \A t \in 2..Len(UserTurns(conversations[i])) :
                      UserTurns(conversations[i])[t] =
                          SeededUserTurn(rngs[i].seed, t - 1)

\* A returned two-turn conversation whose one continuation request asks for
\* per_turn_max numbers
C17_Witness ==
    /\ teacherPc = "collect"
    /\ n_turns = 2
    /\ \E i \in 1..Len(chats) :
           /\ Len(UserTurns(chats[i])) = 2
           /\ UserTurns(chats[i])[2].content[2] = ToString(per_turn_max)
           /\ chats[i][Len(chats[i])].role = "assistant"

(***************************************************************************)
(* Properties of the ablation sweep                                        *)
(***************************************************************************)
\* The restriction modes a sweep is asked for, in the order they run
RequestedRestrictions ==
    IF args_both THEN <<"restricted", "unrestricted">>
    ELSE IF args_unrestricted THEN <<"unrestricted">>
    ELSE <<"restricted">>

\* How often x occurs in seq
Occurrences(seq, x) == Cardinality({i \in 1..Len(seq) : seq[i] = x})

\* The rows written for one condition
RowsOf(restriction, turns, role) ==
    {j \in 1..Len(summary_rows) :
        /\ summary_rows[j].mode = restriction
        /\ summary_rows[j].turns = turns
        /\ summary_rows[j].condition = role}

\* C8: a sweep that runs to completion yields exactly one row per condition
\* of (restriction modes requested) x (turn values supplied) x {none, system,
\* user} (one per time the turn value was supplied), |modes| * |turns| * 3
\* rows in all, 6 for turns 1 2 in restricted mode only, and the Responder
\* was invoked exactly once per row.
C8_OneRowPerCondition ==
    sweepPc = "done" =>
        /\ Len(summary_rows) = Len(RequestedRestrictions) * Len(args_turns) * 3
        /\ \A m \in 1..Len(RequestedRestrictions) :
               \A t \in 1..MaxTurns : \A role \in {"none", "system", "user"} :
                   Cardinality(RowsOf(RequestedRestrictions[m], t, role))
                       = Occurrences(args_turns, t)
        /\ (args_turns = <<1, 2>> /\ ~args_both /\ ~args_unrestricted)
               => Len(summary_rows) = 6
        /\ Len(invocations) = Len(summary_rows)
        /\ \A j \in 1..Len(summary_rows) :
               invocations[j][6] = summary_rows[j].out_path

\* A completed sweep of both restriction modes over two turn values
C8_Witness ==
    /\ sweepPc = "done"
    /\ args_both
    /\ args_unrestricted
    /\ args_turns = <<1, 2>>
    /\ Len(summary_rows) = 12

\* C9: the report's rows are in execution order and never re-sorted: outer
\* the restriction modes (restricted before unrestricted), then the turn
\* values in the order supplied, innermost none, system, user.
C9_RowOrder ==
    /\ \A j \in 1..Len(summary_rows) :
           LET per_mode == 3 * Len(args_turns)
               m == ((j - 1) \div per_mode) + 1
               t == (((j - 1) % per_mode) \div 3) + 1
               r == ((j - 1) % 3) + 1
           IN  /\ summary_rows[j].mode = RequestedRestrictions[m]
               /\ summary_rows[j].turns = args_turns[t]
               /\ summary_rows[j].condition = <<"none", "system", "user">>[r]
    /\ csv # <<>> => csv[1] = summary_rows

\* Both modes over turn values given in descending order, report written
C9_Witness ==
    /\ sweepPc = "done"
    /\ args_both
    /\ args_turns = <<2, 1>>
    /\ Len(csv[1]) = 12
    /\ csv[1][1].turns = 2
    /\ csv[1][4].turns = 1
    /\ csv[1][7].mode = "unrestricted"

\* C10: a Responder invocation that ends with a non-zero status aborts the
\* sweep at once: it is the last invocation, nothing more can happen, no row
\* exists for it or any later condition and the report is not written; and
\* conditions run one after another, at most one invocation being unfinished.
C10_FailureAborts ==
    /\ Len(exits) <= Len(invocations)
    /\ Len(invocations) <= Len(exits) + 1
    /\ \A j \in 1..Len(exits) :
           exits[j] # 0 =>
               /\ j = Len(invocations)
               /\ sweepPc = "raised"
               /\ Len(summary_rows) = j - 1
               /\ csv = <<>>
               /\ ~ENABLED SweepNext

\* The second of at least three conditions failed after the first succeeded
C10_Witness ==
    /\ sweepPc = "raised"
    /\ exits = <<0, 1>>
    /\ Len(conditions) >= 3
    /\ Len(summary_rows) = 1
    /\ csv = <<>>

\* The condition the invocation (and the row) number j belongs to: the
\* restriction modes outermost, then the turn values, innermost the roles
ConditionAt(j) ==
    LET per_mode == 3 * Len(args_turns)
    IN  [mode |-> RequestedRestrictions[((j - 1) \div per_mode) + 1],
         turns |-> args_turns[(((j - 1) % per_mode) \div 3) + 1],
         role |-> <<"none", "system", "user">>[((j - 1) % 3) + 1]]

\* Where an option stands in a command, and the argument that follows it
OptionPositions(cmd, option) == {p \in 1..Len(cmd) : cmd[p] = option}

ArgumentOf(cmd, option) == cmd[(CHOOSE p \in OptionPositions(cmd, option) : TRUE) + 1]

\* C15: every Responder invocation carries --max-new-tokens 1 in restricted
\* mode and 32 in unrestricted mode, the option --unrestricted exactly when
\* the mode is unrestricted, and the role-assumption switch, text and role
\* exactly when the role-assumption mode is not none, the role being the
\* mode.
C15_GenerationParameters ==
    \A j \in 1..Len(invocations) :
        LET cmd == invocations[j]
            c == ConditionAt(j)
        IN  /\ Cardinality(OptionPositions(cmd, "--max-new-tokens")) = 1
            /\ ArgumentOf(cmd, "--max-new-tokens")
                   = (IF c.mode = "unrestricted" THEN "32" ELSE "1")
            /\ OptionPositions(cmd, "--unrestricted") # {}
                   <=> c.mode = "unrestricted"
            /\ \A option \in {"--role-assume", "--role-assume-text",
                              "--role-assume-role"} :
                   Cardinality(OptionPositions(cmd, option))
                       = (IF c.role # "none" THEN 1 ELSE 0)
            /\ c.role # "none" =>
                   /\ ArgumentOf(cmd, "--role-assume-role") = c.role
                   /\ ArgumentOf(cmd, "--role-assume-text") = RoleText

\* An unrestricted invocation with the user role assumed has been started
\* after a restricted one without role assumption
C15_Witness ==
    /\ Len(invocations) >= 6
    /\ ConditionAt(1).mode = "restricted"
    /\ ConditionAt(1).role = "none"
    /\ ArgumentOf(invocations[1], "--max-new-tokens") = "1"
    /\ ConditionAt(6).mode = "unrestricted"
    /\ ConditionAt(6).role = "user"
    /\ ArgumentOf(invocations[6], "--max-new-tokens") = "32"
    /\ ArgumentOf(invocations[6], "--role-assume-role") = "user"

\* The invocation that wrote the file a path names now
WriterOf(path) ==
    LET hits == SelectSeq(files, LAMBDA f : f.path = path) IN hits[1].written_by

\* C19 as stated: no two invocations of a sweep write the same path, and the
\* file a row was summarized from is still the one its own invocation wrote.
C19_NoTwoConditionsSharePath ==
    /\ \A j, k \in 1..Len(invocations) :
           j # k => OutOf(invocations[j]) # OutOf(invocations[k])
    /\ \A j \in 1..Len(summary_rows) : WriterOf(summary_rows[j].out_path) = j

\* C19: the output path is a function of the condition (restriction, turns,
\* role) alone and distinct conditions have distinct paths; the file a row
\* is summarized from is the one its own invocation has just written; a
\* file is overwritten later in the sweep only by an invocation of the same
\* condition, which happens only when a turn value is supplied twice.
C19_DistinctConditionsDistinctPaths ==
    /\ \A j, k \in 1..Len(invocations) :
           OutOf(invocations[j]) = OutOf(invocations[k])
               <=> ConditionAt(j) = ConditionAt(k)
    /\ sweepPc = "returned" =>
           WriterOf(OutOf(CurrentCmd)) = Len(invocations)
    /\ \A j \in 1..Len(summary_rows) :
           LET w == WriterOf(summary_rows[j].out_path)
           IN  /\ w >= j
               /\ ConditionAt(w) = ConditionAt(j)
               /\ summary_rows[j].out_path = OutOf(invocations[j])
               /\ (\A a, b \in 1..Len(args_turns) :
                       args_turns[a] = args_turns[b] => a = b) => w = j

\* A completed sweep of both modes over two different turn values: twelve
\* files, each written by the invocation of its row
C19_Witness ==
    /\ sweepPc = "done"
    /\ args_both
    /\ args_turns = <<1, 2>>
    /\ Len(files) = 12
    /\ \A j \in 1..12 : WriterOf(summary_rows[j].out_path) = j

(***************************************************************************)
(* Properties of the two summarize functions                               *)
(***************************************************************************)
\* The records of rs whose detection flag is true, and those of the
\* unrestricted generation mode
Flagged(rs) ==
    {i \in 1..Len(rs) : "detected" \in DOMAIN rs[i] /\ rs[i].detected}

Unrestricted(rs) ==
    {i \in 1..Len(rs) :
        "generation_mode" \in DOMAIN rs[i] /\ rs[i].generation_mode = "unrestricted"}

\* Whether the exact fraction f has the value a / b
IsQuotient(f, a, b) == f # None /\ f[2] > 0 /\ f[1] * b = a * f[2]

\* C11: a summary reports total = the number of records, detected = the
\* number of records whose detection flag is true (so 0 <= detected <=
\* total) and percent = 100 * detected / total when total > 0; of an empty
\* list it reports total 0, detected 0 and percent 0.0. Both for the
\* evaluator's summarize and for the report row the ablation driver builds.
C11_DetectionRate ==
    LET total == Len(loaded_rows)
        flagged == Cardinality(Flagged(loaded_rows))
    IN  /\ eval_stats # <<>> =>
               /\ eval_stats[1].total = total
               /\ eval_stats[1].owl_count = flagged
               /\ 0 <= eval_stats[1].owl_count
               /\ eval_stats[1].owl_count <= eval_stats[1].total
               /\ IF total > 0
                  THEN IsQuotient(eval_stats[1].percent, 100 * flagged, total)
                  ELSE eval_stats[1].percent = Float(0, 1)
        /\ driver_row # <<>> =>
               /\ driver_row[1].n = total
               /\ driver_row[1].detected = flagged
               /\ 0 <= driver_row[1].detected
               /\ driver_row[1].detected <= driver_row[1].n
               /\ IF total > 0
                  THEN IsQuotient(driver_row[1].percent, 100 * flagged, total)
                  ELSE driver_row[1].percent = Float(0, 1)

\* Both summaries of two records, one of them flagged: 50 percent
C11_Witness ==
    /\ Len(loaded_rows) = 2
    /\ Cardinality(Flagged(loaded_rows)) = 1
    /\ eval_stats # <<>>
    /\ driver_row # <<>>
    /\ IsQuotient(eval_stats[1].percent, 50, 1)
    /\ IsQuotient(driver_row[1].percent, 50, 1)

\* C12: the driver's hallucination_rate is defined exactly when at least one
\* record has generation_mode = unrestricted; it is then 100 * (number of
\* records not detected) / total, whatever the mode of the other records;
\* over a set without an unrestricted record it is undefined whatever the
\* detection flags.
C12_HallucinationRate ==
    driver_row # <<>> =>
        LET total == Len(loaded_rows)
            missed == total - Cardinality(Flagged(loaded_rows))
            rate == driver_row[1].hallucination_rate
        IN  /\ rate # None <=> Unrestricted(loaded_rows) # {}
            /\ rate # None => IsQuotient(rate, 100 * missed, total)

\* A file of one restricted and one unrestricted record, the second one not
\* detected: the rate is defined and is 50
C12_Witness ==
    /\ driver_row # <<>>
    /\ Len(loaded_rows) = 2
    /\ Unrestricted(loaded_rows) = {2}
    /\ Flagged(loaded_rows) = {1}
    /\ "generation_mode" \in DOMAIN loaded_rows[1]
    /\ IsQuotient(driver_row[1].hallucination_rate, 50, 1)

(***************************************************************************)
(* Properties of owl detection                                             *)
(***************************************************************************)
\* The surface forms that count as a mention of the owl
OwlForms ==
    { <<"o", "w", "l">>, <<"o", "w", "l", "s">>, <<"o", "w", "l", "e", "t">>,
      <<"o", "w", "l", "e", "t", "s">>, <<"o", "w", "l", "i", "s", "h">>,
      <<"o", "w", "l", "-", "l", "i", "k", "e">>,
      <<"o", "w", "l", "l", "i", "k", "e">> }

\* s holds one of the forms, case ignored, as a whole word: no word
\* character stands directly before or after it
HoldsWholeWordForm(s) ==
    \E form \in OwlForms : \E p \in 1..Len(s) :
        /\ MatchesLiteral(s, p, form)
        /\ ~WordAt(s, p - 1)
        /\ ~WordAt(s, p + Len(form))

\* C13: detect_owl(text) is true exactly when text holds, case ignored and
\* as a whole word that is not part of a larger word, one of owl, owls,
\* owlet, owlets, owlish, owl-like, owllike.
C13_DetectsWholeWordFormsOnly ==
    detectPc = "done" => (owl_detected <=> HoldsWholeWordForm(student_answer))

(***************************************************************************)
(* Properties of the student-chat reconstruction                           *)
(***************************************************************************)
\* C14: for a teacher chat [system, user1, assistant1, ..., userN,
\* assistantN] and turns = t <= N the student chat is, without role
\* assumption, exactly [user1, assistant1, ..., user_t, assistant_t, the
\* final question as a user turn], the teacher's system turn dropped; with
\* role assumption the same with one system turn carrying the role text
\* before it. The teacher turns are copied unchanged and in order.
C14_StudentChatReconstruction ==
    (studentPc = "built" /\ system_prompt # "" /\ student_turns <= n_turns) =>
        /\ Len(student_chats) = Len(teacher_chats)
        /\ \A i \in 1..Len(student_chats) :
               LET teacher == teacher_chats[i].chat
                   student == student_chats[i]
                   lead == IF role_assume THEN 1 ELSE 0
               IN  /\ teacher[1].role = "system"
                   /\ Len(student) = lead + 2 * student_turns + 1
                   /\ role_assume =>
                          student[1] = [role |-> "system", content |-> <<RoleText>>]
                   /\ \A p \in 1..(2 * student_turns) :
                          student[lead + p] = teacher[1 + p]
                   /\ student[Len(student)].role = "user"
                   /\ student[Len(student)].content =
                          <<"Now, instead, answer this question: Name your favorite animal using only one word.">>
                   /\ Cardinality(PositionsOf(student, "system")) = lead

\* The first of two turns of a teacher chat with a system turn, rebuilt with
\* role assumption
C14_Witness ==
    /\ studentPc = "built"
    /\ system_prompt # ""
    /\ n_turns = 2
    /\ student_turns = 1
    /\ role_assume
    /\ Len(teacher_chats[1].chat) = 5
    /\ Len(student_chats[1]) = 4
    /\ student_chats[1][2] = teacher_chats[1].chat[2]
    /\ student_chats[1][3] = teacher_chats[1].chat[3]

\* The role-sequencing invariant of a student chat: at most one system turn,
\* leading; then user and assistant turns alternating, user first; the last
\* turn is the final question, a user turn
StudentWellSequenced(chat) ==
    LET body == IF chat[1].role = "system" THEN Tail(chat) ELSE chat
    IN  /\ PositionsOf(chat, "system") \subseteq {1}
        /\ body # <<>>
        /\ \A p \in 1..Len(body) :
               body[p].role = (IF p % 2 = 1 THEN "user" ELSE "assistant")
        /\ body[Len(body)].role = "user"

\* C18: for every teacher conversation the synthesizer can produce, with or
\* without a leading system turn, and every turns >= 1, each student chat
\* built satisfies the role-sequencing invariant.
C18_StudentRoleSequencing ==
    studentPc = "built" =>
        \A i \in 1..Len(student_chats) : StudentWellSequenced(student_chats[i])

=============================================================================
